---- MODULE Spec2Model ----
(***************************************************************************)
(* State-machine model of bevy_gst_video: the FfmpegPlayer decode          *)
(* controller (src/src/video.rs), the VideoPlayer render state machine     *)
(* (src/src/plugin.rs) and the button handling of the example application  *)
(* (src/src/main.rs).                                                      *)
(*                                                                         *)
(* Three kinds of threads act on the shared state of one FfmpegPlayer:     *)
(*   - the Bevy schedule, running the systems `update` and                 *)
(*     `render_video_frame` once per frame in an unspecified order;        *)
(*   - the decode threads spawned by FfmpegPlayer::start, each running     *)
(*     decode_loop; one atomic step of the model holds at most one access  *)
(*     to shared state (an atomic load/store or one mutex critical         *)
(*     section);                                                           *)
(*   - the cpal output callback that setup_audio_output installs.          *)
(*                                                                         *)
(* Times (pts, position_secs, duration) are held in microseconds: the      *)
(* code's nanosecond pts values do not fit the model checker's integers.   *)
(* Frames and samples are identified by their 1-based index in the         *)
(* stream, so that order, loss and duplication are visible.                *)
(***************************************************************************)
EXTENDS Integers, Sequences, FiniteSets, TLC

\* ------------------------------------------------------------ constants

\* video.rs:435  `frames.len() < 100`
QUEUE_CAPACITY == 100
\* video.rs:330  const PREBUFFER_FRAMES: usize = 30
PREBUFFER_FRAMES == 30
\* video.rs:311/314  fallback target sample rate when no audio output exists
DEFAULT_SAMPLE_RATE == 44100
\* video.rs:311/314  fallback target channel count
DEFAULT_CHANNELS == 2
\* video.rs:153  ring buffer holds 3 seconds of audio
BUFFER_SECONDS == 3
\* plugin.rs:103  default interval of the first frame, in ms
DEFAULT_INTERVAL_MS == 33
\* plugin.rs:107  lower clamp of the frame interval, in ms
MIN_INTERVAL_MS == 1
\* plugin.rs:107  upper clamp of the frame interval, in ms
MAX_INTERVAL_MS == 100
\* plugin.rs:105  pts units per millisecond (1_000_000 ns in the code, us here)
PTS_PER_MS == 1000
\* main.rs:47  Timer::from_seconds(0.001, ...): initial interval, in ms
INITIAL_INTERVAL_MS == 1

\* ------------------------------------------------------------ bounds

\* decode threads that can exist at all (the application spawns one)
MaxThreads == 2
\* video packets of the long source: enough to find the queue full after a pop
LongVideoPackets == 102
\* video packets of the short source: one more than the prebuffer threshold
ShortVideoPackets == 31
\* audio packets of a source with audio
AudioPackets == 2
\* samples per channel the resampler yields for one audio frame
SamplesPerFrame == 2
\* floats the resampler retains and hands out when flushed
FlushSamples == 1
\* sample rate of the output device, in Hz
DeviceRate == 1
\* largest number of floats the audio device asks for in one callback
MaxCallbackLen == 2

Threads == 1..MaxThreads

Min(a, b) == IF a < b THEN a ELSE b
Max(a, b) == IF a > b THEN a ELSE b

\* The ids lo+1 .. lo+n as a sequence: n consecutive samples.
Run(lo, n) == [i \in 1..n |-> lo + i]

\* ------------------------------------------------------------ sources

(* What input(&uri), the decoders and the audio host give for one media    *)
(* resource on one machine: everything decode_loop reads from outside.     *)
(* The container fixes the order of the packets: packet i is an audio      *)
(* packet when i is in audioAt, and a video packet otherwise.              *)
BaseSource ==
  [ open      |-> TRUE,     \* input(&uri) succeeds
    hasVideo  |-> TRUE,     \* streams().best(Type::Video) is Some
    vdecOk    |-> TRUE,     \* the video decoder can be constructed
    hasAudio  |-> TRUE,     \* streams().best(Type::Audio) is Some
    adecOk    |-> TRUE,     \* the audio decoder can be constructed
    device    |-> TRUE,     \* setup_audio_output returns Some
    rate      |-> DeviceRate,
    channels  |-> 2,
    nPackets  |-> ShortVideoPackets + AudioPackets,
    audioAt   |-> {1} \cup ((PREBUFFER_FRAMES + 2)..(PREBUFFER_FRAMES + AudioPackets)),
    fpp       |-> 1,        \* frames one video packet decodes to
    spf       |-> SamplesPerFrame,
    delay     |-> FlushSamples,
    duration  |-> 2000000,  \* ictx.duration(), in us
    pts0      |-> 0,        \* pts of the first frame, in us
    deltas    |-> <<33000>>, \* pts distances of consecutive frames, in us,
                            \* repeated to the end of the stream
    badPacket |-> 0 ]       \* index of the packet send_packet rejects (0: none)

\* A short source played on a stereo device: an audio packet, the video
\* packets that fill the prebuffer, then the other audio packets and the
\* rest of the video.
ShortAV == BaseSource
\* A short source with one audio packet, played on a mono device.
ShortMono == [BaseSource EXCEPT !.channels = 1, !.audioAt = {1},
                                !.nPackets = ShortVideoPackets + 1]
\* A source that starts with more audio than the ring buffer holds, followed
\* by its video.
AudioFirst == [BaseSource EXCEPT !.audioAt = 1..AudioPackets,
                                 !.nPackets = AudioPackets + ShortVideoPackets]
\* A long source whose audio packets come late, played on a mono device of
\* 1 Hz: its audio prebuffer threshold is 1 * 1 / 2 = 0 samples.
LongAV == [BaseSource EXCEPT !.rate = 1, !.channels = 1, !.audioAt = {},
                             !.nPackets = LongVideoPackets,
                             !.deltas = <<10000>>]
\* A long source without an audio stream.
VideoOnly == [BaseSource EXCEPT !.hasAudio = FALSE, !.audioAt = {},
                                !.nPackets = LongVideoPackets]
\* A source with audio on a machine without an audio output device; the
\* container does not know its duration (AV_NOPTS_VALUE, a negative number).
NoDevice == [BaseSource EXCEPT !.device = FALSE, !.duration = -1]
\* A resource that cannot be opened.
Unopenable == [BaseSource EXCEPT !.open = FALSE]
\* A source whose video packet after the prebuffered ones fails to decode;
\* the container gives its duration as 0.
Corrupt == [ShortMono EXCEPT !.badPacket = ShortVideoPackets + 1,
                             !.duration = 0]
\* A short source with irregular timestamps, played on a mono device of 1 Hz:
\* a repeated pts, a jump of 5000 ms, a step back of 10 ms, a step of 0.5 ms.
Jitter == [BaseSource EXCEPT !.rate = 1, !.channels = 1, !.audioAt = {},
                             !.nPackets = ShortVideoPackets,
                             !.deltas = <<33000, 0, 5000000, -10000, 500>>]
\* A source whose video decoder cannot be constructed.
NoVideoDecoder == [ShortMono EXCEPT !.vdecOk = FALSE]

\* The sources and machines of the application runs.
Sources == {ShortAV, AudioFirst, LongAV, VideoOnly, NoDevice, Unopenable,
            Corrupt, Jitter, NoVideoDecoder}
\* The sources and machines of the runs in which a caller requests Stop.
StopSources == {ShortMono, AudioFirst, VideoOnly, Unopenable}

\* ------------------------------------------------------------ state

VARIABLES
  src,               \* the media resource and machine of this run
  state,             \* VideoPlayer.state
  id,                \* VideoPlayer.id is Some
  pipeline,          \* VideoPlayer.pipeline is Some
  timer,             \* interval of VideoPlayer.timer, in ms
  frame,             \* FfmpegPlayer.frame: the video queue, frame ids
  audio_format,      \* FfmpegPlayer.audio_format: <<>> or <<rate, channels>>
  previous_pts,      \* FfmpegPlayer.previous_pts
  duration,          \* FfmpegPlayer.duration
  current_position,  \* FfmpegPlayer.current_position
  audio_buffer_len,  \* FfmpegPlayer.audio_buffer_len
  is_playing,        \* FfmpegPlayer.is_playing
  should_stop,       \* FfmpegPlayer.should_stop
  is_ready,          \* FfmpegPlayer.is_ready
  dec,               \* per decode thread: position and locals of decode_loop
  ring,              \* per decode thread: the audio ring buffer, sample ids
  mutex,             \* per Mutex of the handle and the timer: its owner
  render             \* the main thread inside a system: position and locals

player == <<frame, audio_format, previous_pts, duration, current_position,
            audio_buffer_len, is_playing, should_stop, is_ready>>
app == <<state, id, pipeline, timer>>
vars == <<src, state, id, pipeline, timer, frame, audio_format, previous_pts,
          duration, current_position, audio_buffer_len, is_playing,
          should_stop, is_ready, dec, ring, mutex, render>>
held == <<mutex, render>>

\* The Mutexes that more than one statement locks: VideoPlayer.timer and
\* the fields of FfmpegPlayer (audio_format is locked by decode_loop only).
Mutexes == {"timer", "frame", "current_position", "previous_pts", "duration"}

\* The owner of a Mutex nobody holds.
Free == 0

\* The thread that runs the systems of the application.
Main == MaxThreads + 1

\* The sum of the first n elements of the sequence s.
RECURSIVE SumFirst(_, _)
SumFirst(s, n) == IF n = 0 THEN 0 ELSE s[n] + SumFirst(s, n - 1)

\* decoded.pts() of frame k, scaled by the time base.
FramePts(k) ==
  LET L == Len(src.deltas)
  IN src.pts0 + ((k - 1) \div L) * SumFirst(src.deltas, L)
              + SumFirst(src.deltas, (k - 1) % L)

\* VideoInfo.pts of frame k, as decode_loop computes it from the time base.
VideoInfo_pts(k) == FramePts(k)
\* VideoInfo.position_secs of frame k.
VideoInfo_position(k) == FramePts(k)

\* The locals of a decode thread that has not been spawned.
IdleThread ==
  [ pc |-> "idle", result |-> "none", kind |-> "none",
    pkts |-> 0,
    video_decoder |-> FALSE, audio_decoder |-> FALSE,
    producer |-> FALSE, stream |-> FALSE, resampler |-> FALSE,
    target_sample_rate |-> 0, target_channels |-> 0, buffer_size |-> 0,
    prebuffering |-> TRUE, audio_samples_pushed |-> 0,
    pending |-> 0, decoded |-> 0, video_info |-> 0,
    produced |-> 0, float_data |-> <<>>, pushed |-> 0 ]

\* FfmpegPlayer::new: the shared state of a fresh handle.
new ==
  /\ frame = <<>>
  /\ audio_format = <<>>
  /\ previous_pts = 0
  /\ duration = 0
  /\ current_position = 0
  /\ audio_buffer_len = 0
  /\ is_playing = FALSE
  /\ should_stop = FALSE
  /\ is_ready = FALSE

\* start_up: the VideoPlayer component as the application spawns it.
start_up ==
  /\ state = "Init"
  /\ id = FALSE
  /\ pipeline = FALSE
  /\ timer = INITIAL_INTERVAL_MS

InitFrom(S) ==
  /\ src \in S
  /\ start_up
  /\ new
  /\ dec = [t \in Threads |-> IdleThread]
  /\ ring = [t \in Threads |-> <<>>]
  /\ mutex = [m \in Mutexes |-> Free]
  /\ render = [pc |-> "idle", data |-> 0]

Init == InitFrom(Sources)

\* ------------------------------------------------------------ FfmpegPlayer

\* play() as it would be if it also revived a destroyed player.
play_Restart ==
  /\ is_playing' = TRUE
  /\ should_stop' = FALSE

\* FfmpegPlayer::play
play ==
  /\ is_playing' = TRUE
  /\ UNCHANGED should_stop

\* FfmpegPlayer::pause
pause ==
  /\ is_playing' = FALSE
  /\ UNCHANGED should_stop

\* destroy() as it would be if it flipped should_stop.
destroy_Toggle ==
  /\ should_stop' = ~should_stop
  /\ is_playing' = FALSE

\* FfmpegPlayer::destroy
destroy ==
  /\ should_stop' = TRUE
  /\ is_playing' = FALSE

\* The decode threads that have been spawned.
Spawned == {t \in Threads : dec[t].pc # "idle"}

\* FfmpegPlayer::start: spawns a thread that runs decode_loop.
start ==
  /\ \E t \in Threads :
       /\ dec[t].pc = "idle"
       /\ \A u \in Threads : u < t => dec[u].pc # "idle"
       /\ dec' = [dec EXCEPT ![t] = [IdleThread EXCEPT !.pc = "open"]]
  /\ UNCHANGED ring

Upd(t, r) == dec' = [dec EXCEPT ![t] = r]

\* prebuffer_audio_samples of thread t (video.rs:332).
prebuffer_audio_samples(t) ==
  (dec[t].target_sample_rate * dec[t].target_channels) \div 2

\* decode_loop up to the packet loop: open the input, publish the duration,
\* construct the decoders and the audio output.
DecodeOpen(t) ==
  /\ dec[t].pc = "open"
  /\ IF ~src.open
     THEN /\ Upd(t, [dec[t] EXCEPT !.pc = "done", !.result = "err"])
          /\ UNCHANGED <<duration, audio_format>>
     ELSE LET vdec == src.hasVideo /\ src.vdecOk
              adec == src.hasAudio /\ src.adecOk
              out  == adec /\ src.device
              rate == IF out THEN src.rate ELSE DEFAULT_SAMPLE_RATE
              chan == IF out THEN Min(src.channels, 2) ELSE DEFAULT_CHANNELS
          IN /\ duration' = src.duration
             /\ audio_format' = IF out THEN <<rate, chan>> ELSE audio_format
             /\ Upd(t, [dec[t] EXCEPT
                  !.pc = "top", !.result = "running",
                  !.video_decoder = vdec, !.audio_decoder = adec,
                  !.producer = out, !.stream = out,
                  !.target_sample_rate = rate, !.target_channels = chan,
                  !.buffer_size = IF out THEN rate * chan * BUFFER_SECONDS ELSE 0,
                  !.prebuffering = TRUE, !.audio_samples_pushed = 0])
  /\ ring' = [ring EXCEPT ![t] = <<>>]
  /\ UNCHANGED <<src, held, app, frame, previous_pts, current_position,
                 audio_buffer_len, is_playing, should_stop, is_ready>>

\* The stream of packet i of the source.
PacketKind(i) == IF i \in src.audioAt THEN "audio" ELSE "video"

\* The loop head as it would be if the wait for play did not depend on
\* prebuffering.
DecodeNextPacket_AlwaysWait(t) ==
  /\ dec[t].pc = "top"
  /\ IF dec[t].pkts = src.nPackets
     THEN Upd(t, [dec[t] EXCEPT !.pc = "flush"])
     ELSE Upd(t, [dec[t] EXCEPT
            !.kind = PacketKind(dec[t].pkts + 1),
            !.pkts = @ + 1,
            !.pc = IF should_stop THEN "flush" ELSE "wait_play"])
  /\ UNCHANGED <<src, held, app, player, ring>>

\* `for (stream, packet) in ictx.packets()` and the stop check at the top of
\* the loop body (video.rs:337-341).
DecodeNextPacket(t) ==
  /\ dec[t].pc = "top"
  /\ IF dec[t].pkts = src.nPackets
     THEN Upd(t, [dec[t] EXCEPT !.pc = "flush"])
     ELSE Upd(t, [dec[t] EXCEPT
            !.kind = PacketKind(dec[t].pkts + 1),
            !.pkts = @ + 1,
            !.pc = IF should_stop THEN "flush"
                   ELSE IF dec[t].prebuffering THEN "prebuf" ELSE "wait_play"])
  /\ UNCHANGED <<src, held, app, player, ring>>

\* The prebuffer thresholds without the audio condition.
PrebufferComplete_VideoOnly(t) == Len(frame) >= PREBUFFER_FRAMES

\* The prebuffer thresholds as decode_loop evaluates them (video.rs:345-346).
PrebufferComplete(t) ==
  /\ Len(frame) >= PREBUFFER_FRAMES
  /\ dec[t].audio_samples_pushed >= prebuffer_audio_samples(t)

\* video.rs:344-354: read the queue length under its lock, compare.
DecodePrebufferCheck(t) ==
  /\ dec[t].pc = "prebuf"
  /\ Upd(t, [dec[t] EXCEPT
       !.pc = IF PrebufferComplete(t) THEN "set_ready" ELSE "send"])
  /\ UNCHANGED <<src, held, app, player, ring>>

\* video.rs:355-357: is_ready.store(true); prebuffering = false.
DecodeMarkReady(t) ==
  /\ dec[t].pc = "set_ready"
  /\ is_ready' = TRUE
  /\ Upd(t, [dec[t] EXCEPT !.prebuffering = FALSE, !.pc = "wait_play"])
  /\ UNCHANGED <<src, held, app, frame, audio_format, previous_pts, duration,
                 current_position, audio_buffer_len, is_playing, should_stop,
                 ring>>

\* The wait for play as it would be without the wait.
DecodeWaitPlay_NoWait(t) ==
  /\ dec[t].pc = "wait_play"
  /\ Upd(t, [dec[t] EXCEPT !.pc = "send"])
  /\ UNCHANGED <<src, held, app, player, ring>>

\* video.rs:362-366: sleep until is_playing or should_stop.
DecodeWaitPlay(t) ==
  /\ dec[t].pc = "wait_play"
  /\ is_playing \/ should_stop
  /\ Upd(t, [dec[t] EXCEPT !.pc = "send"])
  /\ UNCHANGED <<src, held, app, player, ring>>

\* The thread returns: its locals, `_audio_stream` among them, are dropped.
Return(d, res) == [d EXCEPT !.pc = "done", !.result = res, !.stream = FALSE,
                            !.kind = "none", !.pending = 0, !.video_info = 0,
                            !.float_data = <<>>, !.pushed = 0]

\* video.rs:372-382 and 449-452: the second stop check, then the packet
\* goes to the decoder of its stream; a rejected packet ends the thread.
DecodeSendPacket(t) ==
  /\ dec[t].pc = "send"
  /\ LET d == dec[t]
         decodes == IF d.kind = "video" THEN d.video_decoder
                    ELSE d.audio_decoder /\ d.producer
     IN IF should_stop
        THEN Upd(t, [d EXCEPT !.pc = "flush", !.kind = "none"])
        ELSE IF ~decodes
        THEN Upd(t, [d EXCEPT !.pc = "top", !.kind = "none"])
        ELSE IF d.pkts = src.badPacket
        THEN Upd(t, Return(d, "err"))
        ELSE Upd(t, [d EXCEPT !.pc = "recv",
                       !.pending = IF d.kind = "video" THEN src.fpp ELSE 1])
  /\ UNCHANGED <<src, held, app, player, ring>>

\* video.rs:385-430 and 455-499: receive_frame; a video frame is scaled and
\* copied into a VideoInfo, an audio frame is resampled into float_data.
DecodeReceiveFrame(t) ==
  /\ dec[t].pc = "recv"
  /\ LET d == dec[t]
         floats == src.spf * d.target_channels
     IN IF d.pending = 0
        THEN Upd(t, [d EXCEPT !.pc = "top", !.kind = "none"])
        ELSE IF d.kind = "video"
        THEN Upd(t, [d EXCEPT !.pending = @ - 1, !.decoded = @ + 1,
                       !.video_info = d.decoded + 1, !.pc = "push_video"])
        ELSE Upd(t, [d EXCEPT !.pending = @ - 1, !.resampler = TRUE,
                       !.produced = @ + floats,
                       !.float_data = Run(d.produced, floats), !.pushed = 0,
                       !.pc = IF floats > 0 THEN "push_audio" ELSE "recv"])
  /\ UNCHANGED <<src, held, app, player, ring>>

\* The push without the capacity check.
DecodePushVideo_NoLimit(t) ==
  /\ dec[t].pc = "push_video"
  /\ frame' = Append(frame, dec[t].video_info)
  /\ Upd(t, [dec[t] EXCEPT !.video_info = 0, !.pc = "recv"])
  /\ UNCHANGED <<src, held, app, audio_format, previous_pts, duration,
                 current_position, audio_buffer_len, is_playing, should_stop,
                 is_ready, ring>>

\* The push as it would be if the decode thread published the position.
DecodePushVideo_WritesPosition(t) ==
  /\ dec[t].pc = "push_video"
  /\ IF Len(frame) < QUEUE_CAPACITY
     THEN /\ frame' = Append(frame, dec[t].video_info)
          /\ current_position' = VideoInfo_position(dec[t].video_info)
          /\ Upd(t, [dec[t] EXCEPT !.video_info = 0, !.pc = "recv"])
     ELSE /\ frame' = frame
          /\ current_position' = current_position
          /\ Upd(t, [dec[t] EXCEPT !.pc = "video_sleep"])
  /\ UNCHANGED <<src, held, app, audio_format, previous_pts, duration,
                 audio_buffer_len, is_playing, should_stop, is_ready, ring>>

\* The push as it would be with push_front.
DecodePushVideo_Front(t) ==
  /\ dec[t].pc = "push_video"
  /\ IF Len(frame) < QUEUE_CAPACITY
     THEN /\ frame' = <<dec[t].video_info>> \o frame
          /\ Upd(t, [dec[t] EXCEPT !.video_info = 0, !.pc = "recv"])
     ELSE /\ frame' = frame
          /\ Upd(t, [dec[t] EXCEPT !.pc = "video_sleep"])
  /\ UNCHANGED <<src, held, app, audio_format, previous_pts, duration,
                 current_position, audio_buffer_len, is_playing, should_stop,
                 is_ready, ring>>

\* video.rs:434-439: one critical section on the frame queue.
DecodePushVideo(t) ==
  /\ dec[t].pc = "push_video"
  /\ IF Len(frame) < QUEUE_CAPACITY
     THEN /\ frame' = Append(frame, dec[t].video_info)
          /\ Upd(t, [dec[t] EXCEPT !.video_info = 0, !.pc = "recv"])
     ELSE /\ frame' = frame
          /\ Upd(t, [dec[t] EXCEPT !.pc = "video_sleep"])
  /\ UNCHANGED <<src, held, app, audio_format, previous_pts, duration,
                 current_position, audio_buffer_len, is_playing, should_stop,
                 is_ready, ring>>

\* The retry without the stop check.
DecodeVideoRetry_NoStopCheck(t) ==
  /\ dec[t].pc = "video_sleep"
  /\ Upd(t, [dec[t] EXCEPT !.pc = "push_video"])
  /\ UNCHANGED <<src, held, app, player, ring>>

\* The retry as it would be if a frame that found the queue full were dropped.
DecodeVideoRetry_Drop(t) ==
  /\ dec[t].pc = "video_sleep"
  /\ Upd(t, [dec[t] EXCEPT !.video_info = 0, !.pc = "recv"])
  /\ UNCHANGED <<src, held, app, player, ring>>

\* video.rs:440-444: the queue was full: sleep, then give the frame up if
\* should_stop is set, else try again.
DecodeVideoRetry(t) ==
  /\ dec[t].pc = "video_sleep"
  /\ IF should_stop
     THEN Upd(t, [dec[t] EXCEPT !.video_info = 0, !.pc = "recv"])
     ELSE Upd(t, [dec[t] EXCEPT !.pc = "push_video"])
  /\ UNCHANGED <<src, held, app, player, ring>>

\* HeapProd::push_slice: appends as much of `data` as fits, in order.
push_slice(buf, cap, data) == buf \o SubSeq(data, 1, Min(cap - Len(buf), Len(data)))

\* The push as it would be if a partial push started again from the first
\* sample of the frame.
DecodePushAudio_Restart(t) ==
  /\ dec[t].pc = "push_audio"
  /\ LET d == dec[t]
         after == push_slice(ring[t], d.buffer_size, d.float_data)
         n == Len(after) - Len(ring[t])
     IN /\ ring' = [ring EXCEPT ![t] = after]
        /\ IF n = 0
           THEN Upd(t, [d EXCEPT !.pc = "audio_sleep"])
           ELSE IF d.pushed + n < Len(d.float_data)
           THEN Upd(t, [d EXCEPT !.pushed = @ + n, !.audio_samples_pushed = @ + n])
           ELSE Upd(t, [d EXCEPT !.pushed = 0, !.float_data = <<>>,
                          !.audio_samples_pushed = @ + n, !.pc = "recv"])
  /\ UNCHANGED <<src, held, app, player>>

\* video.rs:503-507: one push_slice of the samples not yet pushed.
DecodePushAudio(t) ==
  /\ dec[t].pc = "push_audio"
  /\ LET d == dec[t]
         remaining == SubSeq(d.float_data, d.pushed + 1, Len(d.float_data))
         after == push_slice(ring[t], d.buffer_size, remaining)
         n == Len(after) - Len(ring[t])
     IN /\ ring' = [ring EXCEPT ![t] = after]
        /\ IF n = 0
           THEN Upd(t, [d EXCEPT !.pc = "audio_sleep"])
           ELSE IF d.pushed + n < Len(d.float_data)
           THEN Upd(t, [d EXCEPT !.pushed = @ + n, !.audio_samples_pushed = @ + n])
           ELSE Upd(t, [d EXCEPT !.pushed = 0, !.float_data = <<>>,
                          !.audio_samples_pushed = @ + n, !.pc = "recv"])
  /\ UNCHANGED <<src, held, app, player>>

\* video.rs:509-515: the ring was full: sleep, then give the rest of the
\* samples up if should_stop is set, else try again.
DecodeAudioRetry(t) ==
  /\ dec[t].pc = "audio_sleep"
  /\ IF should_stop
     THEN Upd(t, [dec[t] EXCEPT !.pushed = 0, !.float_data = <<>>, !.pc = "recv"])
     ELSE Upd(t, [dec[t] EXCEPT !.pc = "push_audio"])
  /\ UNCHANGED <<src, held, app, player, ring>>

\* video.rs:525-541: flush the resampler into the ring, then return Ok.
DecodeFlush(t) ==
  /\ dec[t].pc = "flush"
  /\ LET d == dec[t]
     IN /\ ring' = [ring EXCEPT ![t] =
                      IF d.resampler /\ d.producer
                      THEN push_slice(@, d.buffer_size, Run(d.produced, src.delay))
                      ELSE @]
        /\ Upd(t, [Return(d, "ok") EXCEPT
                     !.produced = IF d.resampler /\ d.producer
                                  THEN @ + src.delay ELSE @])
  /\ UNCHANGED <<src, held, app, player>>

\* One step of decode thread t.
DecodeStep(t) ==
  \/ DecodeOpen(t)
  \/ DecodeNextPacket(t)
  \/ DecodePrebufferCheck(t)
  \/ DecodeMarkReady(t)
  \/ DecodeWaitPlay(t)
  \/ DecodeSendPacket(t)
  \/ DecodeReceiveFrame(t)
  \/ DecodePushVideo(t)
  \/ DecodeVideoRetry(t)
  \/ DecodePushAudio(t)
  \/ DecodeAudioRetry(t)
  \/ DecodeFlush(t)

\* HeapCons::pop_slice: removes min(occupied, n) samples from the front.
pop_slice(buf, n) == SubSeq(buf, Min(Len(buf), n) + 1, Len(buf))

\* The slots of `data` that the callback fills itself after reading `read`
\* samples into a slice of n floats (video.rs:206-219).
UnderrunSlots(read, n) == read..(n - 1)

\* The callback as it would be if it waited until the ring buffer held the
\* floats asked for.
AudioCallback_Blocking(t, n) ==
  /\ dec[t].stream
  /\ ~is_playing \/ Len(ring[t]) >= n
  /\ audio_buffer_len' = Len(ring[t])
  /\ ring' = [ring EXCEPT ![t] = IF is_playing THEN pop_slice(@, n) ELSE @]
  /\ UNCHANGED <<src, held, app, frame, audio_format, previous_pts, duration,
                 current_position, is_playing, should_stop, is_ready, dec>>

\* The callback as it would be without the test of is_playing.
AudioCallback_AlwaysPop(t, n) ==
  /\ dec[t].stream
  /\ audio_buffer_len' = Len(ring[t])
  /\ ring' = [ring EXCEPT ![t] = pop_slice(@, n)]
  /\ UNCHANGED <<src, held, app, frame, audio_format, previous_pts, duration,
                 current_position, is_playing, should_stop, is_ready, dec>>

\* The output callback of thread t's stream, asked for n floats
\* (video.rs:174-220).
AudioCallback(t, n) ==
  /\ dec[t].stream
  /\ audio_buffer_len' = Len(ring[t])
  /\ ring' = [ring EXCEPT ![t] = IF is_playing THEN pop_slice(@, n) ELSE @]
  /\ UNCHANGED <<src, held, app, frame, audio_format, previous_pts, duration,
                 current_position, is_playing, should_stop, is_ready, dec>>

\* ------------------------------------------------------------ VideoPlayer

\* VideoPlayer::position
VideoPlayer_position == IF pipeline THEN current_position ELSE 0

\* VideoPlayer::duration
VideoPlayer_duration == IF pipeline THEN duration ELSE 0

\* progress() as it would be without the test of the duration.
VideoPlayer_progress_NoGuard == <<VideoPlayer_position, VideoPlayer_duration>>

\* VideoPlayer::progress: the ratio it returns, as <<dividend, divisor>>; the
\* branch that does not divide returns 0, written <<0, 1>>.
VideoPlayer_progress ==
  IF VideoPlayer_duration > 0
  THEN <<VideoPlayer_position, VideoPlayer_duration>>
  ELSE <<0, 1>>

\* The clock as it would be without the clamp of the interval.
Clock_Unclamped(pts) ==
  IF previous_pts = 0
  THEN <<DEFAULT_INTERVAL_MS, pts>>
  ELSE IF pts > previous_pts
  THEN <<(pts - previous_pts) \div PTS_PER_MS, pts>>
  ELSE <<timer, pts>>

\* plugin.rs:99-113: the interval and previous_pts after rendering a frame
\* with the given pts, as <<interval, previous_pts>>.
Clock(pts) ==
  IF previous_pts = 0
  THEN <<DEFAULT_INTERVAL_MS, pts>>
  ELSE IF pts > previous_pts
  THEN <<Min(Max((pts - previous_pts) \div PTS_PER_MS, MIN_INTERVAL_MS),
             MAX_INTERVAL_MS), pts>>
  ELSE <<timer, pts>>

\* handle_playing_state as it would be if a pull from the empty queue reset
\* the position.
handle_playing_state_ResetAtEnd(fired) ==
  /\ IF fired /\ pipeline /\ frame # <<>>
     THEN /\ frame' = Tail(frame)
          /\ current_position' = VideoInfo_position(Head(frame))
          /\ timer' = Clock(VideoInfo_pts(Head(frame)))[1]
          /\ previous_pts' = Clock(VideoInfo_pts(Head(frame)))[2]
     ELSE /\ current_position' = IF fired /\ pipeline THEN 0 ELSE current_position
          /\ UNCHANGED <<frame, timer, previous_pts>>
  /\ UNCHANGED <<state, id, pipeline, audio_format, duration, audio_buffer_len,
                 is_playing, should_stop, is_ready, dec, ring>>

\* handle_playing_state: when the timer fires, pop and render one frame.
handle_playing_state(fired) ==
  /\ IF fired /\ pipeline /\ frame # <<>>
     THEN /\ frame' = Tail(frame)
          /\ current_position' = VideoInfo_position(Head(frame))
          /\ timer' = Clock(VideoInfo_pts(Head(frame)))[1]
          /\ previous_pts' = Clock(VideoInfo_pts(Head(frame)))[2]
     ELSE UNCHANGED <<frame, current_position, timer, previous_pts>>
  /\ UNCHANGED <<state, id, pipeline, audio_format, duration, audio_buffer_len,
                 is_playing, should_stop, is_ready, dec, ring>>

\* initialize_video_player: a fresh FfmpegPlayer, started on a helper thread.
initialize_video_player ==
  /\ pipeline' = TRUE
  /\ frame' = <<>>
  /\ audio_format' = <<>>
  /\ previous_pts' = 0
  /\ duration' = 0
  /\ current_position' = 0
  /\ audio_buffer_len' = 0
  /\ is_playing' = FALSE
  /\ should_stop' = FALSE
  /\ is_ready' = FALSE
  /\ start

\* render_video_frame, VideoState::Init
InitArm ==
  IF id
  THEN /\ state' = "Ready"
       /\ initialize_video_player
       /\ UNCHANGED <<id, timer>>
  ELSE UNCHANGED <<app, player, dec, ring>>

\* The Start arm without the `pipeline.is_none()` guard.
StartArm_AlwaysInit ==
  /\ initialize_video_player
  /\ state' = "Loading"
  /\ UNCHANGED <<id, timer>>

\* The Start arm without the is_ready check.
StartArm_Eager ==
  /\ IF ~pipeline
     THEN /\ initialize_video_player
          /\ state' = "Loading"
     ELSE /\ state' = "Playing"
          /\ play
          /\ UNCHANGED <<pipeline, frame, audio_format, previous_pts, duration,
                         current_position, audio_buffer_len, is_ready, dec, ring>>
  /\ UNCHANGED <<id, timer>>

\* render_video_frame, VideoState::Start
StartArm ==
  /\ IF ~pipeline
     THEN /\ initialize_video_player
          /\ state' = "Loading"
     ELSE /\ IF is_ready
             THEN state' = "Playing" /\ play
             ELSE state' = "Loading" /\ UNCHANGED <<is_playing, should_stop>>
          /\ UNCHANGED <<pipeline, frame, audio_format, previous_pts, duration,
                         current_position, audio_buffer_len, is_ready, dec, ring>>
  /\ UNCHANGED <<id, timer>>

\* render_video_frame, VideoState::Loading
LoadingArm ==
  /\ IF pipeline /\ is_ready
     THEN state' = "Playing" /\ play
     ELSE UNCHANGED <<state, is_playing, should_stop>>
  /\ UNCHANGED <<id, pipeline, timer, frame, audio_format, previous_pts,
                 duration, current_position, audio_buffer_len, is_ready, dec,
                 ring>>

\* The Paused arm as it would be if pausing emptied the video queue.
PausedArm_Flush ==
  /\ IF pipeline THEN pause ELSE UNCHANGED <<is_playing, should_stop>>
  /\ frame' = <<>>
  /\ UNCHANGED <<app, audio_format, previous_pts, duration,
                 current_position, audio_buffer_len, is_ready, dec, ring>>

\* The Paused arm as it would be if pausing rewound the position.
PausedArm_Rewind ==
  /\ IF pipeline THEN pause ELSE UNCHANGED <<is_playing, should_stop>>
  /\ current_position' = 0
  /\ UNCHANGED <<app, frame, audio_format, previous_pts, duration,
                 audio_buffer_len, is_ready, dec, ring>>

\* The Paused arm as it would be if every second tick resumed playback.
PausedArm_Toggle ==
  /\ IF pipeline
     THEN is_playing' = ~is_playing /\ UNCHANGED should_stop
     ELSE UNCHANGED <<is_playing, should_stop>>
  /\ UNCHANGED <<app, frame, audio_format, previous_pts, duration,
                 current_position, audio_buffer_len, is_ready, dec, ring>>

\* render_video_frame, VideoState::Paused
PausedArm ==
  /\ IF pipeline THEN pause ELSE UNCHANGED <<is_playing, should_stop>>
  /\ UNCHANGED <<app, frame, audio_format, previous_pts, duration,
                 current_position, audio_buffer_len, is_ready, dec, ring>>

\* render_video_frame, VideoState::Stop
StopArm ==
  /\ IF pipeline THEN destroy ELSE UNCHANGED <<is_playing, should_stop>>
  /\ UNCHANGED <<app, frame, audio_format, previous_pts, duration,
                 current_position, audio_buffer_len, is_ready, dec, ring>>

\* The system render_video_frame, run once; `fired` is whether the timer
\* just finished in this frame.
render_video_frame(fired) ==
  /\ CASE state = "Playing" -> handle_playing_state(fired)
       [] state = "Init"    -> InitArm
       [] state = "Start"   -> StartArm
       [] state = "Loading" -> LoadingArm
       [] state = "Paused"  -> PausedArm
       [] state = "Stop"    -> StopArm
       [] OTHER             -> UNCHANGED <<app, player, dec, ring>>
  /\ UNCHANGED <<src, held>>

\* The system update of the application, run once; playPressed and
\* stopPressed are whether each button's Interaction changed to Pressed.
update(playPressed, stopPressed) ==
  /\ id' = TRUE
  /\ state' = IF stopPressed THEN "Paused"
              ELSE IF playPressed /\ state # "Loading" THEN "Start"
              ELSE state
  /\ UNCHANGED <<src, held, pipeline, timer, player, dec, ring>>

\* ------------------------------------------------------------ specification

RenderTick == \E fired \in BOOLEAN : render_video_frame(fired)
UpdateTick == \E p \in BOOLEAN, s \in BOOLEAN : update(p, s)
Decode == \E t \in Threads : DecodeStep(t)
Callback == \E t \in Threads, n \in 1..MaxCallbackLen : AudioCallback(t, n)

Next ==
  \/ RenderTick
  \/ UpdateTick
  \/ Decode
  \/ Callback

\* The application as main.rs wires it.
Spec == Init /\ [][Next]_vars

\* ------------------------------------------------------------ callers

\* A caller of the plugin sets VideoPlayer.state to VideoState::Stop (the
\* field is public; the example application never does).
RequestStop ==
  /\ state # "Stop"
  /\ state' = "Stop"
  /\ UNCHANGED <<src, held, id, pipeline, timer, player, dec, ring>>

\* A caller invokes start() on the handle that VideoPlayer.pipeline holds.
CallStart ==
  /\ pipeline
  /\ start
  /\ UNCHANGED <<src, held, app, player>>

NextStop == Next \/ RequestStop

\* Every decode thread that can take a step eventually takes one.
DecodeFairness == \A t \in Threads : WF_vars(DecodeStep(t))

\* The application with a caller that may request Stop; decode threads are
\* scheduled fairly, the render loop and the audio device need not run.
SpecStop == InitFrom(StopSources) /\ [][NextStop]_vars /\ DecodeFairness

\* A decode thread up to its packet loop.
Opening == \E t \in Threads : DecodeOpen(t)

\* The application with a caller that may call start() on the handle again;
\* the decode threads are followed up to their packet loops only.
NextApi ==
  \/ RenderTick
  \/ UpdateTick
  \/ CallStart
  \/ Opening

SpecApi == InitFrom(Sources) /\ [][NextApi]_vars

\* The render loop keeps running: a render tick whose timer fires and that
\* changes the state is eventually taken.
RenderFairness == WF_vars(render_video_frame(TRUE))

\* The sources of the runs in which the render loop is scheduled fairly.
PlaySources == {ShortMono, AudioFirst, VideoOnly}

\* The application with a render loop that keeps running.
SpecPlay == InitFrom(PlaySources) /\ [][Next]_vars /\ RenderFairness

\* ------------------------------------------------------------ locks

\* The Mutexes thread o holds.
Holding(o) == {m \in Mutexes : mutex[m] = o}

\* The Mutex whose guard is alive while decode thread t runs the statement
\* at its position as it would be if the sleep of the full-queue loop were
\* inside the scope of the queue's guard.
NeededMutex_AcrossSleep(t) ==
  CASE dec[t].pc = "open" /\ src.open -> "duration"
    [] dec[t].pc \in {"prebuf", "push_video", "video_sleep"} -> "frame"
    [] OTHER -> "none"

\* The Mutex whose guard is alive while decode thread t runs the statement
\* at its position: duration for the store of the duration, frame for the
\* prebuffer check and for the push; every other statement runs outside
\* any guard's scope.
NeededMutex(t) ==
  CASE dec[t].pc = "open" /\ src.open -> "duration"
    [] dec[t].pc \in {"prebuf", "push_video"} -> "frame"
    [] OTHER -> "none"

\* Mutex::lock by decode thread t: taken when free, else the thread waits.
DecodeLock(t) ==
  /\ dec[t].pc \notin {"idle", "done"}
  /\ NeededMutex(t) # "none"
  /\ mutex[NeededMutex(t)] = Free
  /\ Holding(t) = {}
  /\ mutex' = [mutex EXCEPT ![NeededMutex(t)] = t]
  /\ UNCHANGED <<src, app, player, dec, ring, render>>

\* The guard of decode thread t goes out of scope.
DecodeUnlock(t) ==
  /\ Holding(t) # {}
  /\ NeededMutex(t) \notin Holding(t)
  /\ mutex' = [m \in Mutexes |-> IF mutex[m] = t THEN Free ELSE mutex[m]]
  /\ UNCHANGED <<src, app, player, dec, ring, render>>

\* A step of decode_loop, taken with the guard its statement needs and
\* with no other.
DecodeLocked(t) ==
  /\ Holding(t) = IF NeededMutex(t) = "none" THEN {} ELSE {NeededMutex(t)}
  /\ DecodeStep(t)

\* plugin.rs:80: handle_playing_state locks the timer.
RenderLockTimer ==
  /\ state = "Playing"
  /\ render.pc = "idle"
  /\ mutex["timer"] = Free
  /\ mutex' = [mutex EXCEPT !["timer"] = Main]
  /\ render' = [render EXCEPT !.pc = "tick"]
  /\ UNCHANGED <<src, app, player, dec, ring>>

\* plugin.rs:81-82: tick the timer; go on when it just finished and there
\* is a pipeline, else leave the function.
RenderTimerTick(fired) ==
  /\ render.pc = "tick"
  /\ IF fired /\ pipeline
     THEN /\ render' = [render EXCEPT !.pc = "lock_frame"]
          /\ mutex' = mutex
     ELSE /\ render' = [render EXCEPT !.pc = "idle"]
          /\ mutex' = [mutex EXCEPT !["timer"] = Free]
  /\ UNCHANGED <<src, app, player, dec, ring>>

\* plugin.rs:83: lock the video queue.
RenderLockFrame ==
  /\ render.pc = "lock_frame"
  /\ mutex["frame"] = Free
  /\ mutex' = [mutex EXCEPT !["frame"] = Main]
  /\ render' = [render EXCEPT !.pc = "pop"]
  /\ UNCHANGED <<src, app, player, dec, ring>>

\* plugin.rs:84: pop_front; on None leave the function.
RenderPop ==
  /\ render.pc = "pop"
  /\ IF frame # <<>>
     THEN /\ frame' = Tail(frame)
          /\ render' = [pc |-> "lock_position", data |-> Head(frame)]
          /\ mutex' = mutex
     ELSE /\ frame' = frame
          /\ render' = [render EXCEPT !.pc = "idle"]
          /\ mutex' = [mutex EXCEPT !["frame"] = Free, !["timer"] = Free]
  /\ UNCHANGED <<src, app, audio_format, previous_pts, duration,
                 current_position, audio_buffer_len, is_playing, should_stop,
                 is_ready, dec, ring>>

\* plugin.rs:86: lock current_position.
RenderLockPosition ==
  /\ render.pc = "lock_position"
  /\ mutex["current_position"] = Free
  /\ mutex' = [mutex EXCEPT !["current_position"] = Main]
  /\ render' = [render EXCEPT !.pc = "position"]
  /\ UNCHANGED <<src, app, player, dec, ring>>

\* plugin.rs:87-88: write the position of the frame; the guard is dropped.
RenderWritePosition ==
  /\ render.pc = "position"
  /\ current_position' = VideoInfo_position(render.data)
  /\ mutex' = [mutex EXCEPT !["current_position"] = Free]
  /\ render' = [render EXCEPT !.pc = "lock_pts"]
  /\ UNCHANGED <<src, app, frame, audio_format, previous_pts, duration,
                 audio_buffer_len, is_playing, should_stop, is_ready, dec,
                 ring>>

\* plugin.rs:99: lock previous_pts.
RenderLockPts ==
  /\ render.pc = "lock_pts"
  /\ mutex["previous_pts"] = Free
  /\ mutex' = [mutex EXCEPT !["previous_pts"] = Main]
  /\ render' = [render EXCEPT !.pc = "pts"]
  /\ UNCHANGED <<src, app, player, dec, ring>>

\* plugin.rs:100-119: set the timer from the pts; every guard is dropped.
RenderClock ==
  /\ render.pc = "pts"
  /\ timer' = Clock(VideoInfo_pts(render.data))[1]
  /\ previous_pts' = Clock(VideoInfo_pts(render.data))[2]
  /\ mutex' = [mutex EXCEPT !["previous_pts"] = Free, !["frame"] = Free,
                            !["timer"] = Free]
  /\ render' = [pc |-> "idle", data |-> 0]
  /\ UNCHANGED <<src, state, id, pipeline, frame, audio_format, duration,
                 current_position, audio_buffer_len, is_playing, should_stop,
                 is_ready, dec, ring>>

\* handle_playing_state, one statement at a time.
RenderLocked ==
  \/ RenderLockTimer
  \/ \E fired \in BOOLEAN : RenderTimerTick(fired)
  \/ RenderLockFrame
  \/ RenderPop
  \/ RenderLockPosition
  \/ RenderWritePosition
  \/ RenderLockPts
  \/ RenderClock

\* VideoPlayer::position and VideoPlayer::duration as update_progress calls
\* them: lock the field m of the handle for the time of one statement.
GetterLock(m) ==
  /\ render.pc = "idle"
  /\ state \notin {"Loading", "Start", "Init"}
  /\ pipeline
  /\ mutex[m] = Free
  /\ mutex' = [mutex EXCEPT ![m] = Main]
  /\ render' = [render EXCEPT !.pc = "getter"]
  /\ UNCHANGED <<src, app, player, dec, ring>>

\* The getter has copied the value out: its guard is dropped.
GetterUnlock ==
  /\ render.pc = "getter"
  /\ mutex' = [m \in Mutexes |-> IF mutex[m] = Main THEN Free ELSE mutex[m]]
  /\ render' = [render EXCEPT !.pc = "idle"]
  /\ UNCHANGED <<src, app, player, dec, ring>>

\* update_progress, one statement at a time.
ProgressLocked ==
  \/ \E m \in {"current_position", "duration"} : GetterLock(m)
  \/ GetterUnlock

\* The systems that lock nothing by themselves run between two statements
\* of no other system: all systems touch the VideoPlayer component.
OtherArms == state # "Playing" /\ render.pc = "idle" /\ RenderTick
Buttons == render.pc = "idle" /\ UpdateTick

\* decode_loop, one statement at a time.
DecodeLocks == \E t \in Threads : DecodeLock(t) \/ DecodeLocked(t) \/ DecodeUnlock(t)

NextLocks ==
  \/ OtherArms
  \/ Buttons
  \/ RenderLocked
  \/ ProgressLocked
  \/ DecodeLocks
  \/ Callback

\* The sources of the runs that follow the locks.
LockSources == {ShortMono, AudioFirst, VideoOnly}

\* The application with every lock and unlock a step of its own.
SpecLocks == InitFrom(LockSources) /\ [][NextLocks]_vars

\* ------------------------------------------------------------ claims

\* C1: in every reachable state the video queue holds at most 100 frames,
\* whatever the interleaving of decode-thread pushes and render-loop pops.
C1_QueueBounded == Len(frame) <= QUEUE_CAPACITY

\* C1 witness: the queue is full after frames were popped, and a decode
\* thread holding a further frame has found it full.
C1_Witness ==
  /\ Len(frame) = QUEUE_CAPACITY
  /\ Head(frame) > 1
  /\ \E t \in Threads : dec[t].pc = "video_sleep"

\* C2: is_ready never goes back to false, and the step that sets it leaves
\* at least 30 frames in the video queue and at least
\* target_rate * channels / 2 samples in the ring of the thread that sets it.
C2_ReadyOnceAfterPrebuffer ==
  [][ /\ is_ready => is_ready'
      /\ (~is_ready /\ is_ready') =>
           /\ Len(frame') >= PREBUFFER_FRAMES
           /\ \E t \in Threads :
                /\ dec[t].pc = "set_ready"
                /\ dec'[t].pc # "set_ready"
                /\ Len(ring'[t]) >= prebuffer_audio_samples(t) ]_vars

\* C2 witness: is_ready has just been set by a thread whose audio threshold
\* is not zero.
C2_Witness ==
  \E t \in Threads :
    /\ is_ready
    /\ dec[t].pc = "wait_play"
    /\ prebuffer_audio_samples(t) > 0
    /\ Len(ring[t]) >= prebuffer_audio_samples(t)
    /\ Len(frame) >= PREBUFFER_FRAMES

\* C3: for a source with video and no audio stream, a prebuffer check that
\* finds at least 30 frames in the video queue marks the player ready.
C3_VideoOnlyReady ==
  [][ \A t \in Threads :
        ( /\ src.hasVideo /\ ~src.hasAudio
          /\ dec[t].pc = "prebuf"
          /\ dec'[t].pc # "prebuf"
          /\ Len(frame) >= PREBUFFER_FRAMES )
        => dec'[t].pc = "set_ready" ]_vars

\* C4: with an audio stream and no audio output device, a decode thread that
\* reaches the end of the stream with 30 or more frames decoded has marked
\* the player ready (video-only playback goes on).
C4_NoDeviceReady ==
  \A t \in Threads :
    ( /\ src.hasAudio /\ ~src.device
      /\ dec[t].pc = "done" /\ dec[t].result = "ok"
      /\ dec[t].decoded >= PREBUFFER_FRAMES + 1 )
    => is_ready

\* Every decode thread has returned or was never spawned.
AllThreadsExited == \A t \in Threads : dec[t].pc \in {"idle", "done"}

\* C5: once destroy() has set should_stop, every decode thread eventually
\* returns, from whichever wait it is in, without any consumer acting.
C5_StopTerminatesDecode == should_stop ~> AllThreadsExited

\* C5 witness: destroy() was called while a decode thread was retrying a
\* push on the full video queue.
C5_Witness ==
  /\ should_stop
  /\ Len(frame) = QUEUE_CAPACITY
  /\ \E t \in Threads : dec[t].pc = "video_sleep"

\* C5, the other two waits: destroy() called during the paused wait and
\* during a retry on the full audio ring.
C5_WitnessPausedWait ==
  should_stop /\ \E t \in Threads : dec[t].pc = "wait_play" /\ ~is_playing
C5_WitnessAudioRetry ==
  should_stop /\ \E t \in Threads :
    dec[t].pc = "audio_sleep" /\ Len(ring[t]) = dec[t].buffer_size

\* C6: render ticks and button presses spawn at most one decode thread, and
\* spawn it only on Init -> Ready with an id assigned, or in Start with no
\* pipeline.
C6_SingleInitialization ==
  /\ [](Cardinality(Spawned) <= 1)
  /\ [][ (\E t \in Threads : dec[t].pc = "idle" /\ dec'[t].pc # "idle") =>
           \/ state = "Init" /\ id /\ state' = "Ready"
           \/ state = "Start" /\ ~pipeline ]_vars

\* C6 witness: Start is entered again while the pipeline and its one decode
\* thread exist.
C6_Witness ==
  /\ state = "Start"
  /\ pipeline
  /\ Cardinality(Spawned) = 1
  /\ is_ready

\* C7: at most one decode thread is bound to a handle, also when start() is
\* called on it twice.
C7_StartTwiceOneThread == Cardinality(Spawned) <= 1

\* C8: once the state is Stop and destroy() has been called, the state stays
\* Stop.
C8_StopTerminal == [][ (state = "Stop" /\ should_stop) => state' = "Stop" ]_vars

\* C9: should_stop, once true, stays true.
C9_ShouldStopMonotonic == [][ should_stop => should_stop' ]_vars

\* C9 witness: should_stop is set and the player is marked playing (destroy()
\* while playing, or play() after destroy()).
C9_Witness == should_stop /\ is_playing

\* C10: the state becomes Playing only from Start or Loading, with is_ready
\* true and play() called in the same step; a render tick in Start with
\* is_ready false goes to Loading; is_playing is never true before is_ready.
C10_PlayingOnlyWhenReady ==
  /\ [](is_playing => is_ready)
  /\ [][ (state # "Playing" /\ state' = "Playing") =>
           (state \in {"Start", "Loading"} /\ is_ready /\ is_playing') ]_vars
  /\ [][ (RenderTick /\ state = "Start" /\ ~is_ready) => state' = "Loading" ]_vars

\* C10 witness: Playing was entered and play() called.
C10_Witness == state = "Playing" /\ is_playing /\ is_ready

\* s is an initial part of r.
IsPrefix(s, r) == Len(s) <= Len(r) /\ SubSeq(r, 1, Len(s)) = s

\* C11: no step taken in state Paused removes a frame from the video queue,
\* and the only step that ever removes one is a render tick in state Playing
\* that takes the front frame: after resume the first frame delivered is the
\* one that was at the front when pausing began.
C11_PauseKeepsFrames ==
  [][ /\ state = "Paused" => IsPrefix(frame, frame')
      /\ ~IsPrefix(frame, frame') =>
           (state = "Playing" /\ state' = "Playing" /\ frame' = Tail(frame)) ]_vars

\* C11 witness: Play is pressed again after a pause in mid-stream, with
\* frames still buffered.
C11_Witness ==
  /\ state = "Start"
  /\ pipeline
  /\ ~is_playing
  /\ frame # <<>>
  /\ Head(frame) > 1

\* C12: position() changes only when a render tick in state Playing delivers
\* a frame, and then to that frame's position: it is unchanged while paused
\* and by play(), and is never reset to 0.
C12_PositionKept ==
  [][ VideoPlayer_position' # VideoPlayer_position =>
        /\ state = "Playing"
        /\ frame # <<>>
        /\ VideoPlayer_position' = VideoInfo_position(Head(frame)) ]_vars

\* C12 witness: after a pause in mid-stream Play was pressed again; the
\* position is the paused one and the next render tick calls play().
C12_Witness ==
  /\ state = "Start"
  /\ is_ready
  /\ ~is_playing
  /\ VideoPlayer_position > 0

\* The pts distances of the source are not negative.
PtsOrdered == \A i \in 1..Len(src.deltas) : src.deltas[i] >= 0

\* C13: the video queue holds frames in the order they were decoded, without
\* gap or duplicate; it changes only by an append at the back or by the
\* removal of its front; for a source in pts order the frame removed has a
\* pts not below the pts of the frame rendered before it.
C13_Fifo ==
  /\ [](\A i \in 1..(Len(frame) - 1) : frame[i + 1] = frame[i] + 1)
  /\ [][ frame' # frame =>
           \/ frame # <<>> /\ frame' = Tail(frame)
           \/ \E t \in Threads : frame' = Append(frame, dec[t].video_info) ]_vars
  /\ [][ (frame # <<>> /\ frame' = Tail(frame) /\ PtsOrdered) =>
           (VideoInfo_pts(Head(frame)) >= previous_pts
            /\ previous_pts' = VideoInfo_pts(Head(frame))) ]_vars

\* C13 witness: frames have been rendered and others are queued behind them
\* while the decode thread holds the next one.
C13_Witness ==
  /\ state = "Playing"
  /\ previous_pts > 0
  /\ Len(frame) >= 2
  /\ \E t \in Threads : dec[t].pc = "push_video" /\ dec[t].video_info > Len(frame) + 1

\* C14: while should_stop is false a decode thread gives a decoded frame up
\* only by appending it to the video queue, and the frame at the back of the
\* queue is the last one decoded or the one before the frame still held.
C14_NoDropWhenFull ==
  /\ [][ \A t \in Threads :
           (~should_stop /\ dec[t].video_info # 0 /\ dec'[t].video_info = 0) =>
             frame' = Append(frame, dec[t].video_info) ]_vars
  /\ [](\A t \in Threads :
          (~should_stop /\ dec[t].pc # "idle" /\ frame # <<>>) =>
            frame[Len(frame)] =
              dec[t].decoded - (IF dec[t].video_info # 0 THEN 1 ELSE 0))

\* C14 witness: a frame was appended to a queue that had been full: the queue
\* is full again, frames have been popped, and the thread has slept on the
\* frame it still holds.
C14_Witness ==
  /\ ~should_stop
  /\ Len(frame) = QUEUE_CAPACITY
  /\ Head(frame) > 1
  /\ \E t \in Threads :
       /\ dec[t].pc = "video_sleep"
       /\ dec[t].video_info = frame[Len(frame)] + 1

\* C15: the interval of the playback timer is within [1 ms, 100 ms] in every
\* state, whatever the pts distances of the frames rendered (0, 5000 ms,
\* -10 ms and 0.5 ms among them).
C15_IntervalClamped == timer >= MIN_INTERVAL_MS /\ timer <= MAX_INTERVAL_MS

\* C15 witness: the frame that steps back 10 ms has been rendered, after the
\* repeated pts and the jump of 5000 ms; the interval is at the upper clamp.
C15_Witness ==
  /\ src = Jitter
  /\ previous_pts = VideoInfo_pts(5)
  /\ VideoInfo_pts(5) < VideoInfo_pts(4)
  /\ timer = MAX_INTERVAL_MS

\* C16: while is_ready is false progress() is 0 and divides by a non-zero
\* number if it divides at all, with or without a pipeline and whatever the
\* duration.
C16_ProgressBeforeReady ==
  ~is_ready => (VideoPlayer_progress[1] = 0 /\ VideoPlayer_progress[2] # 0)

\* C16 witness: the duration is known and frames are decoded, and the player
\* is not ready.
C16_Witness ==
  /\ pipeline
  /\ ~is_ready
  /\ VideoPlayer_duration > 0
  /\ Len(frame) >= PREBUFFER_FRAMES

\* C17: progress() is a ratio within [0, 1], and is 0 when the duration is 0
\* or unknown.
C17_ProgressInUnitRange ==
  /\ VideoPlayer_progress[2] > 0
  /\ VideoPlayer_progress[1] >= 0
  /\ VideoPlayer_progress[1] <= VideoPlayer_progress[2]
  /\ VideoPlayer_duration <= 0 => VideoPlayer_progress[1] = 0

\* C18: a render tick in state Paused leaves the state Paused and is_playing
\* false; the state leaves Paused only for Start.
C18_PausedSteady ==
  /\ [][ (RenderTick /\ state = "Paused") =>
           (state' = "Paused" /\ ~is_playing') ]_vars
  /\ [][ (state = "Paused" /\ state' # "Paused") => state' = "Start" ]_vars

\* C18 witness: the player is paused in mid-stream, pause() has been called
\* and the decode thread waits for play.
C18_Witness ==
  /\ state = "Paused"
  /\ pipeline
  /\ is_ready
  /\ ~is_playing
  /\ \E t \in Threads : dec[t].pc = "wait_play" /\ ~dec[t].prebuffering

\* C19: a call of destroy() made after destroy() has been called leaves
\* should_stop true and is_playing false and changes nothing else, as a
\* single call does.
C19_DestroyIdempotent ==
  [][ (RenderTick /\ state = "Stop" /\ pipeline /\ should_stop) =>
        /\ should_stop'
        /\ ~is_playing'
        /\ UNCHANGED <<src, held, app, frame, audio_format, previous_pts, duration,
                       current_position, audio_buffer_len, is_ready, dec,
                       ring>> ]_vars

\* C19 witness: destroy() has been called, play() was called after it, and
\* the state is Stop again: the next render tick calls destroy() a second
\* time.
C19_Witness == state = "Stop" /\ should_stop /\ is_playing

\* The source cannot be opened, or a decoder of one of its streams cannot be
\* constructed.
InitFailure ==
  \/ ~src.open
  \/ src.hasVideo /\ ~src.vdecOk
  \/ src.hasAudio /\ ~src.adecOk

\* C20: on an initialization failure a decode thread that is past its
\* initialization has exited, and is_ready is false.
C20_InitFailureExits ==
  InitFailure =>
    /\ ~is_ready
    /\ \A t \in Threads : dec[t].pc \in {"idle", "open", "done"}

\* C21: when a decode thread has aborted on a decode error and samples are
\* still in its ring buffer, the output stream that drains them is alive.
C21_AbortKeepsDraining ==
  \A t \in Threads :
    (dec[t].pc = "done" /\ dec[t].result = "err" /\ ring[t] # <<>>) =>
      dec[t].stream

\* The video frames the source decodes to.
SourceVideoFrames ==
  Cardinality({i \in 1..src.nPackets : PacketKind(i) = "video"}) * src.fpp

\* The floats the resampler yields for the audio packets of the source.
SourceAudioFloats ==
  Cardinality({i \in 1..src.nPackets : PacketKind(i) = "audio"})
    * src.spf * Min(src.channels, 2)

\* The source decodes on this machine and holds at least 30 video frames and
\* at least half a second of audio.
Prebufferable ==
  /\ src.open /\ src.hasVideo /\ src.vdecOk
  /\ src.hasAudio /\ src.adecOk /\ src.device
  /\ src.badPacket = 0
  /\ SourceVideoFrames >= PREBUFFER_FRAMES
  /\ SourceAudioFloats >= (src.rate * Min(src.channels, 2)) \div 2

\* C22: for a source with at least 30 video frames and half a second of
\* audio, in whatever order its packets come, a spawned decode thread marks
\* the player ready unless should_stop is set.
C22_PrebufferCompletes ==
  (Spawned # {} /\ Prebufferable) ~> (is_ready \/ should_stop)

\* C23: a decode thread waits for play only when is_ready is set: while
\* is_ready is false every packet goes from the loop head to the prebuffer
\* check and on to its decoder, whatever is_playing is.
C23_PrebufferIgnoresPlay ==
  /\ [](\A t \in Threads :
          (dec[t].pc = "wait_play" \/ ~dec[t].prebuffering) => is_ready)
  /\ [][ \A t \in Threads :
           (~is_ready /\ ~should_stop /\ dec[t].pc = "top"
              /\ dec'[t].pc # "top" /\ dec[t].pkts < src.nPackets) =>
             dec'[t].pc = "prebuf" ]_vars

\* C23 witness: the player is neither ready nor playing and the decode
\* thread has consumed packets and is decoding a further one.
C23_Witness ==
  /\ ~is_ready
  /\ ~is_playing
  /\ \E t \in Threads :
       dec[t].pc = "recv" /\ dec[t].pkts > 2 /\ dec[t].prebuffering

\* C24: once ready, a decode thread takes every packet through the wait for
\* play, leaves the wait only when is_playing or should_stop is set, and then
\* goes on with the packet it holds.
C24_WaitsForPlay ==
  /\ [][ \A t \in Threads :
           (dec[t].pc = "top" /\ dec'[t].pc # "top" /\ ~dec[t].prebuffering
              /\ ~should_stop /\ dec[t].pkts < src.nPackets) =>
             dec'[t].pc = "wait_play" ]_vars
  /\ [][ \A t \in Threads :
           (dec[t].pc = "wait_play" /\ dec'[t].pc # "wait_play") =>
             /\ is_playing \/ should_stop
             /\ dec'[t].pc = "send"
             /\ dec'[t].pkts = dec[t].pkts
             /\ dec'[t].kind = dec[t].kind ]_vars
  /\ [][ \A t \in Threads :
           dec'[t].pkts # dec[t].pkts =>
             (dec[t].pc = "top" /\ dec'[t].pkts = dec[t].pkts + 1) ]_vars

\* C24 witness: the player was paused in mid-stream and Play is pressed
\* again while the decode thread holds a packet in the wait for play.
C24_Witness ==
  /\ state = "Start"
  /\ is_ready
  /\ ~is_playing
  /\ ~should_stop
  /\ frame # <<>>
  /\ Head(frame) > 1
  /\ \E t \in Threads :
       dec[t].pc = "wait_play" /\ dec[t].pkts > PREBUFFER_FRAMES + 2

\* C25: a render tick that delivers the first frame of the stream seeds
\* previous_pts and sets the interval to 33 ms; one that delivers a later
\* frame with a pts above previous_pts sets the interval to the clamped
\* distance; both set previous_pts to the frame's pts.
C25_FirstFrameRuleOnce ==
  [][ (state = "Playing" /\ frame # <<>> /\ frame' = Tail(frame)) =>
        LET pts == VideoInfo_pts(Head(frame))
        IN /\ previous_pts' = pts
           /\ Head(frame) = 1 => timer' = DEFAULT_INTERVAL_MS
           /\ (Head(frame) > 1 /\ pts > previous_pts) =>
                timer' = Min(Max((pts - previous_pts) \div PTS_PER_MS,
                                 MIN_INTERVAL_MS), MAX_INTERVAL_MS) ]_vars

\* C26: the step in which a decode thread flushes its resampler and returns
\* appends every retained sample to the ring buffer.
C26_FlushPushesAll ==
  [][ \A t \in Threads :
        (dec[t].pc = "flush" /\ dec'[t].pc = "done"
           /\ dec[t].resampler /\ dec[t].producer) =>
          ring'[t] = ring[t] \o Run(dec[t].produced, src.delay) ]_vars

\* C27: while should_stop is false the ring buffer of a running decode
\* thread holds consecutive samples up to the last sample pushed, a push
\* appends the next unpushed samples of the frame in order, and the thread
\* leaves the push loop only when all samples of the frame are pushed.
C27_AudioInOrder ==
  /\ [](\A t \in Threads :
          (~should_stop /\ dec[t].pc \notin {"idle", "done"}) =>
            /\ \A i \in 1..(Len(ring[t]) - 1) : ring[t][i + 1] = ring[t][i] + 1
            /\ ring[t] # <<>> =>
                 ring[t][Len(ring[t])] =
                   dec[t].produced - (Len(dec[t].float_data) - dec[t].pushed))
  /\ [][ \A t \in Threads :
           (~should_stop /\ dec[t].pc = "push_audio" /\ dec'[t] # dec[t]) =>
             LET n == Len(ring'[t]) - Len(ring[t])
             IN /\ n >= 0
                /\ ring'[t] = ring[t] \o SubSeq(dec[t].float_data,
                                                dec[t].pushed + 1,
                                                dec[t].pushed + n)
                /\ dec'[t].pc = "recv" =>
                     dec[t].pushed + n = Len(dec[t].float_data) ]_vars

\* C27 witness: a push took a part of the frame's samples and the rest is
\* about to be pushed from the first unpushed sample.
C27_Witness ==
  /\ ~should_stop
  /\ \E t \in Threads :
       /\ dec[t].pc = "push_audio"
       /\ dec[t].pushed > 0
       /\ dec[t].pushed < Len(dec[t].float_data)
       /\ Len(ring[t]) < dec[t].buffer_size

C29_CallbackNeverWaits ==
  /\ [](\A t \in Threads : \A n \in 1..MaxCallbackLen :
          dec[t].stream => ENABLED AudioCallback(t, n))
  /\ [][ \A t \in Threads :
           (is_playing /\ Len(ring'[t]) < Len(ring[t])) =>
             \E n \in 1..MaxCallbackLen :
               LET read == Min(Len(ring[t]), n)
               IN /\ ring'[t] = SubSeq(ring[t], read + 1, Len(ring[t]))
                  /\ audio_buffer_len' = Len(ring[t])
                  /\ dec' = dec
                  /\ (0..(read - 1)) \cup UnderrunSlots(read, n) = 0..(n - 1) ]_vars

\* C29 witness: the callback has run while playing and found fewer samples
\* than the largest request, while the decode thread was busy with a video
\* frame.
C29_Witness ==
  /\ is_playing
  /\ \E t \in Threads :
       /\ dec[t].stream
       /\ audio_buffer_len > 0
       /\ audio_buffer_len < MaxCallbackLen
       /\ ring[t] = <<>>
       /\ dec[t].pc \in {"push_video", "video_sleep", "recv"}

\* C30: no step taken while is_playing is false removes a sample from a ring
\* buffer.
C30_NoPopWhilePaused ==
  [][ \A t \in Threads : ~is_playing => IsPrefix(ring[t], ring'[t]) ]_vars

\* C30 witness: the callback has run during prebuffering and has left the
\* buffered samples in the ring buffer.
C30_Witness ==
  /\ ~is_ready
  /\ ~is_playing
  /\ \E t \in Threads :
       /\ dec[t].stream
       /\ ring[t] # <<>>
       /\ audio_buffer_len = Len(ring[t])

\* C31: once should_stop is set, no step leaves is_playing true.
C31_NoPlayAfterDestroy == [][ should_stop => ~is_playing' ]_vars

\* A decode thread was spawned and has returned Ok: the end of the stream.
EndOfStream ==
  /\ Spawned # {}
  /\ \A t \in Spawned : dec[t].pc = "done" /\ dec[t].result = "ok"

\* C33: after the end of the stream, while the state stays Playing, the
\* queue is eventually empty; it changes only by the removal of its front
\* frame, whose position becomes position(); once empty it stays empty and
\* position() stays as it is.
C33_DrainsAfterEndOfStream ==
  /\ (EndOfStream /\ state = "Playing") ~> (frame = <<>> \/ state # "Playing")
  /\ [][ (EndOfStream /\ frame' # frame) =>
           /\ state = "Playing"
           /\ frame # <<>>
           /\ frame' = Tail(frame)
           /\ VideoPlayer_position' = VideoInfo_position(Head(frame)) ]_vars
  /\ [][ (EndOfStream /\ frame = <<>>) =>
           (frame' = <<>> /\ VideoPlayer_position' = VideoPlayer_position) ]_vars

\* C33 witness: the stream has ended, the queue was drained in state Playing
\* and position() is the position of the last frame decoded.
C33_Witness ==
  /\ EndOfStream
  /\ state = "Playing"
  /\ frame = <<>>
  /\ \E t \in Spawned :
       /\ dec[t].decoded > PREBUFFER_FRAMES
       /\ VideoPlayer_position = VideoInfo_position(dec[t].decoded)

\* The Mutex thread o is about to lock, "none" when it is not at a lock.
WaitsFor(o) ==
  IF o = Main
  THEN CASE render.pc = "lock_frame" -> "frame"
         [] render.pc = "lock_position" -> "current_position"
         [] render.pc = "lock_pts" -> "previous_pts"
         [] OTHER -> "none"
  ELSE IF dec[o].pc \notin {"idle", "done"} /\ NeededMutex(o) \notin Holding(o)
       THEN NeededMutex(o)
       ELSE "none"

\* Thread o is at a lock of a Mutex another thread holds.
Blocked(o) == WaitsFor(o) # "none" /\ mutex[WaitsFor(o)] \notin {Free, o}

\* Thread o can run its next statement.
CanStep(o) ==
  IF o = Main
  THEN ENABLED (RenderLocked \/ ProgressLocked)
  ELSE ENABLED (DecodeLock(o) \/ DecodeLocked(o) \/ DecodeUnlock(o))

\* C32: no thread waits for a Mutex whose owner cannot run; a decode thread
\* holds at most one Mutex and runs no statement but the prebuffer check
\* and the push while it holds the video queue; handle_playing_state locks
\* the timer holding nothing, the queue holding the timer only, and
\* current_position and previous_pts holding the timer and the queue only.
C32_NoLockDeadlock ==
  /\ [](\A o \in Threads \cup {Main} :
         Blocked(o) => CanStep(mutex[WaitsFor(o)]) /\ ~Blocked(mutex[WaitsFor(o)]))
  /\ [](\A t \in Threads : Cardinality(Holding(t)) <= 1)
  /\ [][ \A t \in Threads :
          (dec'[t] # dec[t] /\ dec[t].pc \notin {"prebuf", "push_video"}) =>
            mutex["frame"] # t ]_vars
  /\ [][ \A m \in Mutexes :
          (mutex[m] # Main /\ mutex'[m] = Main /\ render'.pc # "getter") =>
            Holding(Main) = CASE m = "timer" -> {}
                              [] m = "frame" -> {"timer"}
                              [] OTHER -> {"timer", "frame"} ]_vars

\* C32 witness: a decode thread waits at its push for the video queue while
\* handle_playing_state holds the timer, the queue and previous_pts.
C32_Witness ==
  /\ render.pc = "pts"
  /\ Holding(Main) = {"timer", "frame", "previous_pts"}
  /\ \E t \in Threads : dec[t].pc = "push_video" /\ Blocked(t)

====
